---- MODULE Spec2Model ----
(***************************************************************************)
(* Model of talk2api-main/tools.py: the process-wide slot holding the      *)
(* dynamically created execution agent (_execution_agent,                  *)
(* _execution_agent_tool, _current_tools) and the three tool functions the *)
(* root agent of agent.py calls: discover_and_create_agent,                *)
(* call_execution_agent and reset_execution_agent.                         *)
(*                                                                         *)
(* The two async functions are coroutines on one event loop.  A coroutine  *)
(* runs without interruption up to an await that suspends, so each action  *)
(* below is the code between two such awaits.  search_api_hub contains no  *)
(* await (requests.post blocks), so `await search_api_hub(query)` never    *)
(* suspends; `await toolset.get_tools()` and the awaits of the runner      *)
(* (create_session, the async for over run_async) are library awaits and   *)
(* may suspend.  Each task of Tasks is one tool invocation in progress.    *)
(*                                                                         *)
(* Python values: None and an absent dict key are the empty sequence,      *)
(* a present value v is <<v>> (None, Some).  A text is a sequence of       *)
(* symbols; the sentinel "TOOL_NOT_FOUND" is the three-symbol sequence     *)
(* Sentinel, and Python's `in` on strings is Contains.                     *)
(***************************************************************************)
EXTENDS Naturals, Sequences, FiniteSets

(* ---------------------------------------------------------------- bounds *)
\* tool invocations that may be in progress at once
NumTasks == 2
\* discover_and_create_agent calls that may be started in one behaviour
MaxDiscoveries == 2
\* longest delegate response text, in symbols
MaxTextLen == 4
\* discover_and_create_agent calls started in a behaviour in which no call raises
MaxRaceDiscoveries == 3

Tasks == 1..NumTasks

None == <<>>
Some(v) == <<v>>

(* ----------------------------------------------------------------- texts *)
Symbols == {"TOOL", "NOT", "FOUND", "x"}
Sentinel == <<"TOOL", "NOT", "FOUND">>

RECURSIVE SeqsUpTo(_, _)
SeqsUpTo(S, n) ==
    IF n = 0 THEN {<<>>}
    ELSE LET shorter == SeqsUpTo(S, n - 1)
         IN  shorter \cup {Append(s, x) : s \in shorter, x \in S}

\* every text of at most MaxTextLen symbols, the empty string included
Texts == SeqsUpTo(Symbols, MaxTextLen)

\* the text the delegate emits while several invocations interleave
WrappedSentinel == <<"x">> \o Sentinel \o <<"x">>

\* the texts of the parts of a multi-part event
FewTexts == {<<"x">>, WrappedSentinel}

\* Python `sub in s` on strings
Contains(s, sub) ==
    \E i \in 0..Len(s) :
        /\ i + Len(sub) <= Len(s)
        /\ SubSeq(s, i + 1, i + Len(sub)) = sub

(* --------------------------------------------------------------- catalog *)
\* spec resource names the search can return
Locators == {"specs/customers", "specs/orders"}

\* the operations APIHubToolset builds from a spec; credential is what
\* configure_auth_credential has attached
SpecTools(loc) ==
    CASE loc = "specs/customers" ->
           << [name |-> "get_customer_by_id", auth_scheme |-> TRUE,  credential |-> FALSE],
              [name |-> "list_customers",     auth_scheme |-> FALSE, credential |-> FALSE] >>
      [] loc = "specs/orders" ->
           << [name |-> "get_order_by_id",    auth_scheme |-> TRUE,  credential |-> FALSE] >>
      [] OTHER -> << >>

\* no request is made
NoResponse == [status |-> "none", shape_ok |-> TRUE, results |-> <<>>]

\* what requests.post / raise_for_status / response.json() can produce
Responses ==
    {[status |-> "error", shape_ok |-> TRUE, results |-> <<>>]}
      \cup {[status |-> "ok", shape_ok |-> FALSE, results |-> <<>>]}
      \cup {[status |-> "ok", shape_ok |-> TRUE, results |-> <<>>]}
      \cup {[status |-> "ok", shape_ok |-> TRUE, results |-> <<None>>]}
      \cup {[status |-> "ok", shape_ok |-> TRUE, results |-> <<Some(l)>>] : l \in Locators}

\* the cases of a response: no request, a transport or HTTP error, a body
\* that is not the expected JSON object, no results, a first result without
\* a spec, a first result with a spec
AnswerKind(resp) ==
    IF resp.status = "none" THEN "none"
    ELSE IF resp.status = "error" THEN "error"
    ELSE IF ~resp.shape_ok THEN "malformed"
    ELSE IF resp.results = <<>> THEN "empty"
    ELSE IF resp.results[1] = None THEN "no_spec"
    ELSE "spec"

(* ----------------------------------------------------------------- state *)
VARIABLES
    execution_agent,        \* _execution_agent: None or Some(agent)
    execution_agent_tool,   \* _execution_agent_tool: None or Some([agent |-> agent])
    current_tools,          \* _current_tools: sequence of tool names
    pc,                     \* per task: "idle", "get_tools", "run"
    loc,                    \* per task: the locals of the suspended coroutine
    ret,                    \* what the last step returned, raised, or that it suspended
    hist                    \* history: discoveries started, agents built, latest good one

vars == <<execution_agent, execution_agent_tool, current_tools, pc, loc, ret, hist>>
slot == <<execution_agent, execution_agent_tool, current_tools>>

\* replacing: the discovery found an agent in the slot and Step 0 discarded it;
\* ticket: the discovery was the ticket-th to start
NoLocals == [toolset |-> <<>>, spec |-> None, runner |-> None, final_response |-> None,
             replacing |-> FALSE, ticket |-> 0]

\* the outcome of a step of task `task` in function `op`: suspended at an await,
\* an exception that escaped (raised), or a returned dict, of which an absent
\* key is None / "absent" / FALSE.  Beside the dict, what the step did:
\* posts: the requests.post calls it made; ran: the agent the runner of a call
\* was built on; faulted: a call it made to a library or a service raised;
\* again: it is a reset that directly follows a reset; located: what
\* search_api_hub returned to a discovery; ctor: whether the discovery called
\* the APIHubToolset constructor, and whether it "failed" or "built" a toolset;
\* ticket: the returning discovery was the ticket-th to start; over: the id of
\* the agent the slot held when the discovery installed its own; seen: the
\* text of the last part with a non-empty text in the event a run handled;
\* shadowed: an earlier part of that event held the sentinel; keyed: the
\* discovery that returned success:true found APIKEY_CREDENTIAL set;
\* configured: the discovery found both the search URL and an access token;
\* answer: what the search request of the discovery met (AnswerKind).
NoRet ==
    [op |-> "none", task |-> 0, suspended |-> FALSE, raised |-> FALSE,
     faulted |-> FALSE, again |-> FALSE, success |-> "absent",
     error |-> "absent", tool_not_found |-> FALSE, message |-> None,
     result |-> None, tools |-> None, current_tools |-> None,
     previous_tools |-> None, spec |-> None, posts |-> 0, ran |-> None,
     located |-> None, ctor |-> "none", ticket |-> 0, over |-> None,
     seen |-> None, shadowed |-> FALSE, keyed |-> FALSE,
     configured |-> FALSE, answer |-> "none"]

\* started: discoveries begun; built: agents constructed so far (the next agent
\* gets id built + 1); good: the id installed by the latest successful
\* discovery, None once a reset or a success:false discovery followed it;
\* stale: the tasks whose discovery was awaiting get_tools when a reset ran
NoHist == [started |-> 0, built |-> 0, good |-> None, stale |-> {}]

Init ==
    /\ execution_agent = None
    /\ execution_agent_tool = None
    /\ current_tools = <<>>
    /\ pc = [t \in Tasks |-> "idle"]
    /\ loc = [t \in Tasks |-> NoLocals]
    /\ ret = NoRet
    /\ hist = NoHist

(* ------------------------------------------------- reset_execution_agent *)
\* _current_tools is not cleared
reset_keeps_tools(t) ==
    /\ pc[t] = "idle"
    /\ execution_agent' = None
    /\ execution_agent_tool' = None
    /\ ret' = [NoRet EXCEPT !.op = "reset", !.task = t, !.success = "True",
                            !.previous_tools = Some(current_tools),
                            !.again = (ret.op = "reset")]
    /\ hist' = [hist EXCEPT !.good = None,
                             !.stale = {u \in Tasks : pc[u] = "get_tools"}]
    /\ UNCHANGED <<current_tools, pc, loc>>

reset_execution_agent(t) ==
    /\ pc[t] = "idle"
    /\ LET old_tools == current_tools
       IN  /\ execution_agent' = None
           /\ execution_agent_tool' = None
           /\ current_tools' = <<>>
           /\ ret' = [NoRet EXCEPT !.op = "reset", !.task = t, !.success = "True",
                                   !.previous_tools = Some(old_tools),
                                   !.again = (ret.op = "reset")]
    /\ hist' = [hist EXCEPT !.good = None,
                             !.stale = {u \in Tasks : pc[u] = "get_tools"}]
    /\ UNCHANGED <<pc, loc>>

(* -------------------------------------------------------- search_api_hub *)
\* a failed request is sent a second time before giving up
search_api_hub_retry(search_url, access_token, resp) ==
    IF ~search_url THEN [spec |-> None, raised |-> FALSE, posts |-> 0]
    ELSE IF ~access_token THEN [spec |-> None, raised |-> FALSE, posts |-> 0]
    ELSE IF resp.status = "error" THEN [spec |-> None, raised |-> FALSE, posts |-> 2]
    ELSE IF ~resp.shape_ok THEN [spec |-> None, raised |-> TRUE, posts |-> 1]
    ELSE IF resp.results = <<>> THEN [spec |-> None, raised |-> FALSE, posts |-> 1]
    ELSE [spec |-> resp.results[1], raised |-> FALSE, posts |-> 1]

\* search_url, access_token: whether get_apihub_search_url() and
\* get_apihub_access_token() return a non-empty string.  posts counts the
\* requests.post calls made; raised is an exception that is not a
\* RequestException (data.get on a body that is not of the expected shape) and
\* so passes the except clause.
search_api_hub(search_url, access_token, resp) ==
    IF ~search_url THEN [spec |-> None, raised |-> FALSE, posts |-> 0]
    ELSE IF ~access_token THEN [spec |-> None, raised |-> FALSE, posts |-> 0]
    ELSE IF resp.status = "error" THEN [spec |-> None, raised |-> FALSE, posts |-> 1]
    ELSE IF ~resp.shape_ok THEN [spec |-> None, raised |-> TRUE, posts |-> 1]
    ELSE IF resp.results = <<>> THEN [spec |-> None, raised |-> FALSE, posts |-> 1]
    ELSE [spec |-> resp.results[1], raised |-> FALSE, posts |-> 1]

\* whether the search request or the decoding of its response raised
SearchFaulted(search_url, access_token, resp) ==
    search_url /\ access_token /\ (resp.status = "error" \/ ~resp.shape_ok)

(* -------------------------------------------- create_toolset_from_apihub *)
\* the constructor's exception degrades to a toolset without operations
create_toolset_or_empty(apihub_resource_name, ctor_ok) ==
    IF ctor_ok THEN Some(SpecTools(apihub_resource_name)) ELSE Some(<<>>)

\* ctor_ok: whether the APIHubToolset constructor returns; its exception is
\* caught and None returned
create_toolset_from_apihub(apihub_resource_name, ctor_ok) ==
    IF ctor_ok THEN Some(SpecTools(apihub_resource_name)) ELSE None

(* --------------------------------------------- discover_and_create_agent *)
\* Step 0 left out: the old agent survives the start of a discovery
Step0Keeps(agent, agent_tool, tools) == <<agent, agent_tool, tools>>

\* Step 0: the three globals after "if _execution_agent is not None: ..."
Step0(agent, agent_tool, tools) ==
    IF agent # None THEN <<None, None, <<>>>> ELSE <<agent, agent_tool, tools>>

\* from the call to the await of toolset.get_tools(), or to an earlier return
discover_start(t, search_url, access_token, resp, ctor_ok) ==
    /\ pc[t] = "idle"
    /\ LET s0 == Step0(execution_agent, execution_agent_tool, current_tools)
           found == search_api_hub(search_url, access_token, resp)
           base == [NoRet EXCEPT !.op = "discover", !.task = t, !.posts = found.posts,
                                 !.faulted = SearchFaulted(search_url, access_token, resp),
                                 !.located = found.spec,
                                 !.configured = (search_url /\ access_token),
                                 !.answer = AnswerKind(resp),
                                 !.ctor = IF found.spec = None THEN "none"
                                          ELSE IF ctor_ok THEN "built" ELSE "failed"]
           toolset == create_toolset_from_apihub(found.spec[1], ctor_ok)
       IN  /\ execution_agent' = s0[1]
           /\ execution_agent_tool' = s0[2]
           /\ current_tools' = s0[3]
           /\ IF found.raised
              THEN /\ ret' = [base EXCEPT !.raised = TRUE]
                   /\ hist' = [hist EXCEPT !.started = @ + 1]
                   /\ UNCHANGED <<pc, loc>>
              ELSE IF found.spec = None
              THEN /\ ret' = [base EXCEPT !.success = "False"]
                   /\ hist' = [hist EXCEPT !.started = @ + 1, !.good = None]
                   /\ UNCHANGED <<pc, loc>>
              ELSE IF toolset = None
              THEN /\ ret' = [base EXCEPT !.success = "False", !.spec = found.spec,
                                          !.faulted = TRUE]
                   /\ hist' = [hist EXCEPT !.started = @ + 1, !.good = None]
                   /\ UNCHANGED <<pc, loc>>
              ELSE /\ pc' = [pc EXCEPT ![t] = "get_tools"]
                   /\ loc' = [loc EXCEPT ![t] = [NoLocals EXCEPT !.toolset = toolset[1],
                                                                 !.spec = found.spec,
                                                                 !.replacing = (execution_agent # None),
                                                                 !.ticket = hist.started + 1]]
                   /\ hist' = [hist EXCEPT !.started = @ + 1]
                   /\ ret' = [base EXCEPT !.suspended = TRUE]

\* tool.name for tool in tools
ToolNames(tools) == [i \in 1..Len(tools) |-> tools[i].name]

\* the auth_scheme test left out: with a key every tool gets the credential
ConfigureAuthAll(tools, api_key) ==
    IF api_key
    THEN [i \in 1..Len(tools) |-> [tools[i] EXCEPT !.credential = TRUE]]
    ELSE tools

\* lines 226-230: the tools after the credential loop
ConfigureAuth(tools, api_key) ==
    IF api_key
    THEN [i \in 1..Len(tools) |->
            IF tools[i].auth_scheme THEN [tools[i] EXCEPT !.credential = TRUE]
            ELSE tools[i]]
    ELSE tools

\* LlmAgent(..., tools=[toolset]): the instruction lists tool_names
LlmAgent(id, tool_names, tools) == [id |-> id, names |-> tool_names, tools |-> tools]

\* AgentTool(agent=_execution_agent)
AgentTool(agent) == [agent |-> agent]

\* the agent is installed only into an empty slot: an agent installed during
\* the await is kept
discover_finish_first_wins(t, api_key, fault) ==
    /\ pc[t] = "get_tools"
    /\ fault = "credential" => api_key
    /\ LET tools == loc[t].toolset
           tool_names == ToolNames(tools)
           agent == LlmAgent(hist.built + 1, tool_names, ConfigureAuth(tools, api_key))
           base == [NoRet EXCEPT !.op = "discover", !.task = t]
       IN  IF fault = "none" /\ execution_agent # None
           THEN /\ ret' = [base EXCEPT !.success = "True", !.tools = Some(tool_names),
                                       !.ticket = loc[t].ticket,
                                       !.over = Some(execution_agent[1].id),
                                       !.keyed = api_key]
                /\ hist' = [hist EXCEPT !.stale = @ \ {t}]
                /\ UNCHANGED slot
           ELSE /\ current_tools' = IF fault = "get_tools" THEN current_tools ELSE tool_names
                /\ IF fault = "none"
                   THEN /\ execution_agent' = Some(agent)
                        /\ execution_agent_tool' = Some(AgentTool(agent))
                        /\ ret' = [base EXCEPT !.success = "True",
                                               !.tools = Some(tool_names),
                                               !.ticket = loc[t].ticket,
                                               !.keyed = api_key]
                        /\ hist' = [hist EXCEPT !.built = @ + 1, !.good = Some(agent.id),
                                                 !.stale = @ \ {t}]
                   ELSE /\ UNCHANGED <<execution_agent, execution_agent_tool>>
                        /\ ret' = [base EXCEPT !.raised = TRUE, !.faulted = TRUE]
                        /\ hist' = [hist EXCEPT !.stale = @ \ {t}]
    /\ pc' = [pc EXCEPT ![t] = "idle"]
    /\ loc' = [loc EXCEPT ![t] = NoLocals]

\* from the completion of get_tools() to the return.  fault names the call
\* that raises, if any: "get_tools", "credential" (get_auth_credential or
\* configure_auth_credential, which run only with an API key configured),
\* "agent" (the LlmAgent constructor).  Nothing here catches an exception.
discover_finish(t, api_key, fault) ==
    /\ pc[t] = "get_tools"
    /\ fault = "credential" => api_key
    /\ LET tools == loc[t].toolset
           tool_names == ToolNames(tools)
           agent == LlmAgent(hist.built + 1, tool_names, ConfigureAuth(tools, api_key))
           base == [NoRet EXCEPT !.op = "discover", !.task = t]
       IN  /\ current_tools' = IF fault = "get_tools" THEN current_tools ELSE tool_names
           /\ IF fault = "none"
              THEN /\ execution_agent' = Some(agent)
                   /\ execution_agent_tool' = Some(AgentTool(agent))
                   /\ ret' = [base EXCEPT !.success = "True", !.tools = Some(tool_names),
                                          !.ticket = loc[t].ticket,
                                          !.over = IF execution_agent = None THEN None
                                                   ELSE Some(execution_agent[1].id),
                                          !.keyed = api_key]
                   /\ hist' = [hist EXCEPT !.built = @ + 1, !.good = Some(agent.id),
                                            !.stale = @ \ {t}]
              ELSE /\ UNCHANGED <<execution_agent, execution_agent_tool>>
                   /\ ret' = [base EXCEPT !.raised = TRUE, !.faulted = TRUE]
                   /\ hist' = [hist EXCEPT !.stale = @ \ {t}]
    /\ pc' = [pc EXCEPT ![t] = "idle"]
    /\ loc' = [loc EXCEPT ![t] = NoLocals]

(* -------------------------------------------------- call_execution_agent *)
\* part.text of one part: None (no text), Some(<<>>) (""), Some(text)
PartsOf(T) == {None, Some(<<>>)} \cup {Some(x) : x \in T}

\* the positions of the parts that carry a non-empty text
TextPositions(parts) ==
    {i \in 1..Len(parts) : parts[i] # None /\ parts[i][1] # <<>>}

\* the last of the positions at
LastOf(at) == CHOOSE i \in at : \A j \in at : j <= i

\* a text once taken is kept: the first truthy part.text wins
RECURSIVE FirstText(_, _)
FirstText(final_response, parts) ==
    IF parts = <<>> THEN final_response
    ELSE LET part == Head(parts)
         IN  FirstText(IF final_response = None /\ part # None /\ part[1] # <<>>
                       THEN part ELSE final_response,
                       Tail(parts))

\* lines 322-325 for the parts of one event: the last truthy part.text wins
RECURSIVE LastText(_, _)
LastText(final_response, parts) ==
    IF parts = <<>> THEN final_response
    ELSE LET part == Head(parts)
         IN  LastText(IF part # None /\ part[1] # <<>> THEN part ELSE final_response,
                      Tail(parts))

\* the sentinel is looked for at the start of the response only
ClassifyPrefix(final_response, tools) ==
    IF final_response # None /\ Len(final_response[1]) >= Len(Sentinel)
       /\ SubSeq(final_response[1], 1, Len(Sentinel)) = Sentinel
    THEN [NoRet EXCEPT !.success = "False", !.tool_not_found = TRUE,
                       !.message = final_response, !.current_tools = Some(tools)]
    ELSE [NoRet EXCEPT !.success = "True", !.result = Some(final_response)]

\* lines 330-339: the dict returned for final_response
Classify(final_response, tools) ==
    IF final_response # None /\ final_response[1] # <<>>
       /\ Contains(final_response[1], Sentinel)
    THEN [NoRet EXCEPT !.success = "False", !.tool_not_found = TRUE,
                       !.message = final_response, !.current_tools = Some(tools)]
    ELSE [NoRet EXCEPT !.success = "True", !.result = Some(final_response)]

\* the None check left out: a runner is built whatever the slot holds
call_start_unguarded(t) ==
    /\ pc[t] = "idle"
    /\ pc' = [pc EXCEPT ![t] = "run"]
    /\ loc' = [loc EXCEPT ![t] = [NoLocals EXCEPT !.runner = execution_agent]]
    /\ ret' = [NoRet EXCEPT !.op = "call", !.task = t, !.suspended = TRUE]
    /\ UNCHANGED <<slot, hist>>

\* from the call to the first await of the runner, or the no-agent return
call_start(t) ==
    /\ pc[t] = "idle"
    /\ IF execution_agent = None
       THEN /\ ret' = [NoRet EXCEPT !.op = "call", !.task = t, !.error = "no_agent"]
            /\ UNCHANGED <<pc, loc>>
       ELSE /\ pc' = [pc EXCEPT ![t] = "run"]
            /\ loc' = [loc EXCEPT ![t] = [NoLocals EXCEPT !.runner = execution_agent]]
            /\ ret' = [NoRet EXCEPT !.op = "call", !.task = t, !.suspended = TRUE]
    /\ UNCHANGED <<slot, hist>>

\* one event of runner.run_async
call_event(t, parts) ==
    /\ pc[t] = "run"
    /\ loc' = [loc EXCEPT ![t].final_response = LastText(@, parts)]
    /\ LET at == TextPositions(parts)
       IN  ret' = [NoRet EXCEPT !.op = "call", !.task = t, !.suspended = TRUE,
                                !.seen = IF at = {} THEN None ELSE parts[LastOf(at)],
                                !.shadowed = \E i \in at : /\ i < LastOf(at)
                                                           /\ Contains(parts[i][1], Sentinel)]
    /\ UNCHANGED <<slot, pc, hist>>

\* no except clause: the exception leaves call_execution_agent
call_raise_uncaught(t) ==
    /\ pc[t] = "run"
    /\ ret' = [NoRet EXCEPT !.op = "call", !.task = t, !.raised = TRUE,
                            !.faulted = TRUE, !.ran = loc[t].runner]
    /\ pc' = [pc EXCEPT ![t] = "idle"]
    /\ loc' = [loc EXCEPT ![t] = NoLocals]
    /\ UNCHANGED <<slot, hist>>

\* the runner, the session service or a tool invocation raises: except Exception
call_raise(t) ==
    /\ pc[t] = "run"
    /\ ret' = [NoRet EXCEPT !.op = "call", !.task = t, !.error = "failed",
                            !.faulted = TRUE, !.ran = loc[t].runner]
    /\ pc' = [pc EXCEPT ![t] = "idle"]
    /\ loc' = [loc EXCEPT ![t] = NoLocals]
    /\ UNCHANGED <<slot, hist>>

\* a tool_not_found result also discards the delegate
call_finish_retires(t) ==
    /\ pc[t] = "run"
    /\ LET result == Classify(loc[t].final_response, current_tools)
       IN  /\ ret' = [result EXCEPT !.op = "call", !.task = t, !.ran = loc[t].runner]
           /\ IF result.tool_not_found
              THEN /\ execution_agent' = None
                   /\ execution_agent_tool' = None
                   /\ current_tools' = <<>>
              ELSE UNCHANGED slot
    /\ pc' = [pc EXCEPT ![t] = "idle"]
    /\ loc' = [loc EXCEPT ![t] = NoLocals]
    /\ UNCHANGED hist

\* run_async is exhausted: classify final_response and return
call_finish(t) ==
    /\ pc[t] = "run"
    /\ ret' = [Classify(loc[t].final_response, current_tools)
                 EXCEPT !.op = "call", !.task = t, !.ran = loc[t].runner]
    /\ pc' = [pc EXCEPT ![t] = "idle"]
    /\ loc' = [loc EXCEPT ![t] = NoLocals]
    /\ UNCHANGED <<slot, hist>>

(* -------------------------------------------------------- specifications *)
Faults == {"none", "get_tools", "credential", "agent"}

\* the events of a run while invocations interleave: no content or one part;
\* with one invocation at a time, one or two parts over more texts
FewEvents == {<<>>} \cup {<<p>> : p \in PartsOf({WrappedSentinel})}
PairEvents ==
    {<<>>} \cup {<<p>> : p \in PartsOf(FewTexts)}
      \cup {<<p, q>> : p \in PartsOf(FewTexts), q \in PartsOf(FewTexts)}

Reset(T) == \E t \in T : reset_execution_agent(t)
\* there is a response exactly when the request is made, and the toolset
\* constructor has an outcome only when it is called
DiscoverStart(T, max) ==
    \E t \in T, search_url \in BOOLEAN, access_token \in BOOLEAN,
       resp \in Responses \cup {NoResponse}, ctor_ok \in BOOLEAN :
        /\ hist.started < max
        /\ (resp = NoResponse) <=> ~(search_url /\ access_token)
        /\ ~ctor_ok => search_api_hub(search_url, access_token, resp).spec # None
        /\ discover_start(t, search_url, access_token, resp, ctor_ok)
\* the API key is read only after get_tools has returned
DiscoverFinish(T, F) ==
    \E t \in T, api_key \in BOOLEAN, fault \in F :
        /\ fault = "get_tools" => ~api_key
        /\ discover_finish(t, api_key, fault)
CallStart(T) == \E t \in T : call_start(t)
CallEvent(T, E) == \E t \in T, parts \in E : call_event(t, parts)
\* the first text of a run is any text of Texts (a later event reaches the same
\* final_response, so only the first is enumerated)
CallFirstText(T) ==
    \E t \in T, x \in Texts :
        /\ loc[t].final_response = None
        /\ call_event(t, <<Some(x)>>)
CallRaise(T) == \E t \in T : call_raise(t)
CallFinish(T) == \E t \in T : call_finish(t)

\* tool invocations interleaving at their awaits
Next ==
    \/ Reset(Tasks)
    \/ DiscoverStart(Tasks, MaxDiscoveries)
    \/ DiscoverFinish(Tasks, Faults)
    \/ CallStart(Tasks)
    \/ CallEvent(Tasks, FewEvents)
    \/ CallRaise(Tasks)
    \/ CallFinish(Tasks)

Spec == Init /\ [][Next]_vars

\* one tool invocation at a time, each awaited to completion before the next
NextSeq ==
    \/ Reset({1})
    \/ DiscoverStart({1}, MaxDiscoveries)
    \/ DiscoverFinish({1}, Faults)
    \/ CallStart({1})
    \/ CallEvent({1}, PairEvents)
    \/ CallFirstText({1})
    \/ CallRaise({1})
    \/ CallFinish({1})

SpecSeq == Init /\ [][NextSeq]_vars

\* tool invocations interleaving at their awaits, when no library call and no
\* service raises
NextRace ==
    \/ Reset(Tasks)
    \/ DiscoverStart(Tasks, MaxRaceDiscoveries)
    \/ DiscoverFinish(Tasks, {"none"})
    \/ CallStart(Tasks)
    \/ CallEvent(Tasks, FewEvents)
    \/ CallFinish(Tasks)

SpecRace == Init /\ [][NextRace]_vars

(* ---------------------------------------------------------------- claims *)
\* the slot is empty: no agent, no agent tool, no tool names
SlotEmpty ==
    /\ execution_agent = None
    /\ execution_agent_tool = None
    /\ current_tools = <<>>

\* the step just taken started a call_execution_agent (its task was idle)
CallStarts == ret'.op = "call" /\ pc[ret'.task] = "idle"

\* C1: after a discover_and_create_agent that returns success:false (no
\* locator, or toolset construction failed) the slot is empty, whatever it
\* held before the call.
C1_FailedDiscoveryLeavesSlotEmpty ==
    (ret.op = "discover" /\ ret.success = "False") => SlotEmpty

\* C2: a call_execution_agent that starts a delegate run builds its runner on
\* the agent of the most recent successful discovery, and only when no reset
\* and no success:false discovery came after that discovery; it never runs an
\* agent that a later successful discovery has replaced.
C2_CallRunsLatestDiscoveredDelegate ==
    [][\A t \in Tasks :
         (pc[t] # "run" /\ pc'[t] = "run")
           => /\ loc'[t].runner # None
              /\ hist.good # None
              /\ loc'[t].runner[1].id = hist.good[1]
              /\ ~(loc'[t].runner[1].id < hist.built)]_vars

\* C2 witness: after two successful discoveries a call runs the second agent
C2_Witness ==
    \E t \in Tasks :
        /\ pc[t] = "run"
        /\ loc[t].runner # None
        /\ loc[t].runner[1].id = 2
        /\ hist.good = Some(2)

\* C3: a call_execution_agent started while the slot is empty returns the
\* no-agent error payload, builds no runner (no delegate run, no network
\* call) and leaves the slot empty.
C3_EmptySlotCallReturnsNoAgentError ==
    [][(CallStarts /\ SlotEmpty)
         => /\ ret'.error = "no_agent"
            /\ ~ret'.suspended /\ ~ret'.raised
            /\ ret'.success = "absent"
            /\ ret'.ran = None
            /\ pc'[ret'.task] = "idle"
            /\ loc'[ret'.task].runner = None
            /\ SlotEmpty']_vars

\* C3 witness: the no-agent error is returned on a slot that a discovery had
\* filled and a reset or a failed discovery emptied again
C3_Witness ==
    /\ ret.op = "call" /\ ret.error = "no_agent"
    /\ SlotEmpty
    /\ hist.built > 0

\* the step just taken is the return of task t's call after run_async ended
CallReturns(t) == pc[t] = "run" /\ pc'[t] = "idle" /\ ~ret'.faulted

\* the text holds the three symbols of the sentinel in a row somewhere
HoldsSentinel(s) ==
    \E i \in 1..Len(s) :
        /\ i + 2 <= Len(s)
        /\ s[i] = "TOOL" /\ s[i + 1] = "NOT" /\ s[i + 2] = "FOUND"

\* C4: for every delegate response that holds the sentinel anywhere (at the
\* start or wrapped in other text) call_execution_agent returns success:false
\* with tool_not_found:true and the response as message, never success:true.
C4_SentinelAnywhereIsToolNotFound ==
    [][\A t \in Tasks :
         (CallReturns(t) /\ loc[t].final_response # None
            /\ HoldsSentinel(loc[t].final_response[1]))
           => /\ ret'.success = "False"
              /\ ret'.tool_not_found
              /\ ret'.message = loc[t].final_response
              /\ ret'.result = None]_vars

\* C4 witness: a response with text before the sentinel is returned as
\* tool_not_found
C4_Witness ==
    /\ ret.op = "call" /\ ret.tool_not_found
    /\ ret.message = Some(<<"x", "TOOL", "NOT", "FOUND">>)

\* C5: whenever call_execution_agent returns tool_not_found:true, current_tools
\* is the list of operation names of the agent whose run produced the response.
C5_ToolNotFoundListsToolsOfRespondingDelegate ==
    (ret.op = "call" /\ ret.tool_not_found)
      => /\ ret.ran # None
         /\ ret.current_tools = Some(ret.ran[1].names)

\* C6: reset_execution_agent returns success:true with previous_tools equal to
\* the operation names of the capability set current just before the call (the
\* empty list when the slot was empty), and leaves the slot empty.
C6_ResetReturnsCurrentSetAndEmptiesSlot ==
    [][ret'.op = "reset"
         => /\ ret'.success = "True"
            /\ execution_agent # None
                 => ret'.previous_tools = Some(execution_agent[1].names)
            /\ SlotEmpty => ret'.previous_tools = Some(<<>>)
            /\ SlotEmpty']_vars

\* C7: a reset_execution_agent that directly follows another one returns
\* success:true with previous_tools empty and leaves the slot as the first
\* reset left it.
C7_ResetIsIdempotent ==
    [][(ret.op = "reset" /\ ret'.op = "reset")
         => /\ ret'.success = "True"
            /\ ret'.previous_tools = Some(<<>>)
            /\ slot' = slot]_vars

\* C7 witness: a second reset in a row, after an agent had been built
C7_Witness ==
    /\ ret.op = "reset" /\ ret.again
    /\ ret.previous_tools = Some(<<>>)
    /\ hist.built > 0

\* C8: in every state the parts of the triple exist together: the agent is
\* None exactly when the agent tool is None, the agent tool wraps the current
\* agent, and _current_tools lists the operation names the agent was built
\* with (the empty list when there is no agent).
C8_TripleCreatedAndDestroyedTogether ==
    /\ (execution_agent = None) <=> (execution_agent_tool = None)
    /\ (execution_agent # None /\ execution_agent_tool # None)
         => execution_agent_tool[1].agent = execution_agent[1]
    /\ current_tools = IF execution_agent = None THEN <<>>
                       ELSE execution_agent[1].names

\* C9: every failure of an external call made during
\* discover_and_create_agent ends in a returned dict with success:false; no
\* exception leaves the function.
C9_DiscoveryFailuresBecomeResults ==
    (ret.op = "discover" /\ ret.faulted) => (ret.success = "False" /\ ~ret.raised)

\* C10: when the delegate runtime or an operation raises during
\* call_execution_agent the call returns an {error: ...} payload instead of
\* raising, and the step leaves the slot as it was.
C10_CallFailureReturnsErrorPayload ==
    [][(ret'.op = "call" /\ ret'.faulted)
         => /\ ret'.error = "failed"
            /\ ~ret'.raised
            /\ ret'.success = "absent"
            /\ pc'[ret'.task] = "idle"
            /\ slot' = slot]_vars

\* C10 witness: a run on the agent the slot holds failed and the error payload
\* was returned
C10_Witness ==
    /\ ret.op = "call" /\ ret.faulted /\ ret.error = "failed"
    /\ execution_agent # None
    /\ ret.ran = execution_agent

\* the step just taken started a discover_and_create_agent (its task was idle)
DiscoverStarts == ret'.op = "discover" /\ pc[ret'.task] = "idle"

\* C11: when the search returns a locator and the toolset constructor fails,
\* discover_and_create_agent returns at once with success:false, spec equal to
\* that locator and no tools (so never success:true with an empty list); when
\* the search returns no locator it returns success:false without a spec.
C11_ConstructionFailureCarriesLocator ==
    [][DiscoverStarts
         => /\ ret'.ctor = "failed"
                 => /\ ~ret'.suspended /\ ~ret'.raised
                    /\ pc'[ret'.task] = "idle"
                    /\ ret'.success = "False"
                    /\ ret'.tools = None
                    /\ ret'.located # None
                    /\ ret'.spec = ret'.located
            /\ (ret'.located = None /\ ~ret'.raised)
                 => /\ ~ret'.suspended
                    /\ ret'.success = "False"
                    /\ ret'.tools = None
                    /\ ret'.spec = None]_vars

\* C11 witness: the constructor failed on the orders spec and the result
\* carries that locator
C11_Witness ==
    /\ ret.op = "discover" /\ ret.ctor = "failed"
    /\ ret.success = "False"
    /\ ret.spec = Some("specs/orders")

\* C12: a discover_and_create_agent that finds a capability in the slot leaves
\* the slot empty when it suspends, and while it is in flight the slot stays
\* empty: a call_execution_agent started meanwhile gets the no-agent error,
\* and the slot is next filled by this discovery's own return.
C12_SlotEmptyWhileReplacing ==
    [][\A t \in Tasks :
         /\ (pc[t] = "idle" /\ pc'[t] = "get_tools" /\ execution_agent # None)
              => SlotEmpty'
         /\ (pc[t] = "get_tools" /\ loc[t].replacing)
              => /\ SlotEmpty
                 /\ CallStarts => ret'.error = "no_agent"
                 /\ ~SlotEmpty' => (pc'[t] = "idle" /\ ret'.task = t
                                      /\ ret'.success = "True")]_vars

\* C13: whatever the slot holds when a discovery's get_tools completes (empty,
\* or the agent of a discovery that started later and returned first), a
\* discovery that returns success:true installs its own triple, which is then
\* the current one: the last to complete wins.
C13_LastCompletedDiscoveryIsCurrent ==
    [][\A t \in Tasks :
         (pc[t] = "get_tools" /\ pc'[t] = "idle" /\ ret'.success = "True")
           => /\ execution_agent' # None
              /\ execution_agent'[1].id = hist.built + 1
              /\ execution_agent'[1].names = ToolNames(loc[t].toolset)
              /\ execution_agent_tool' = Some([agent |-> execution_agent'[1]])
              /\ current_tools' = ToolNames(loc[t].toolset)
              /\ ret'.tools = Some(current_tools')
              /\ hist'.good = Some(hist.built + 1)]_vars

\* C13 witness: of two overlapping discoveries the one started first returned
\* last and replaced the agent the other had installed
C13_Witness ==
    /\ ret.op = "discover" /\ ret.success = "True"
    /\ ret.ticket = 1 /\ ret.over = Some(1)
    /\ execution_agent # None /\ execution_agent[1].id = 2
    /\ current_tools = <<"get_order_by_id">>

\* the step just taken is one of task t's call_execution_agent after its
\* runner was built: an event of the run, its failure or its end
RunContinues(t) == pc[t] = "run" /\ ret'.op = "call" /\ ret'.task = t

\* C14: every step of a delegate run (an event, in which the delegate may
\* invoke an operation, or the end of the run) is taken while the agent the
\* runner was built on is the one the slot holds: no run goes on after a
\* reset or a discovery retired its agent.
C14_DelegateRunsOnlyWhileCurrent ==
    [][\A t \in Tasks : RunContinues(t) => execution_agent = loc[t].runner]_vars

\* C15: reset_execution_agent leaves the slot empty, and a discovery that was
\* awaiting get_tools when the reset ran writes none of the three globals when
\* it resumes: only a discovery started after the reset fills the slot again.
C15_ResetOutlivesInFlightDiscovery ==
    [][/\ ret'.op = "reset" => SlotEmpty'
       /\ \A t \in hist.stale :
            (pc[t] = "get_tools" /\ pc'[t] = "idle") => slot' = slot]_vars

\* C16: no step of call_execution_agent writes the slot: whether the call
\* suspends, returns the no-agent error, a result, tool_not_found or an error
\* payload, the three globals are after the step what they were before it.
C16_CallLeavesSlotUnchanged ==
    [][ret'.op = "call" => slot' = slot]_vars

\* C16 witness: a call returned tool_not_found and the delegate that ran is
\* still the one in the slot
C16_Witness ==
    /\ ret.op = "call" /\ ret.tool_not_found
    /\ execution_agent # None
    /\ ret.ran = execution_agent
    /\ execution_agent_tool = Some([agent |-> execution_agent[1]])
    /\ current_tools = execution_agent[1].names

\* C17: final_response is None when the run starts, each event replaces it by
\* the event's last part with a non-empty text (and keeps it when the event
\* has none), and the return classifies that value alone: tool_not_found
\* exactly when it holds the sentinel, whatever earlier parts held, and
\* success:true with result None when no text was emitted.
C17_LastNonEmptyTextIsClassified ==
    [][\A t \in Tasks :
         /\ (pc[t] = "idle" /\ pc'[t] = "run") => loc'[t].final_response = None
         /\ (pc[t] = "run" /\ pc'[t] = "run" /\ ret'.task = t)
              => loc'[t].final_response =
                   IF ret'.seen = None THEN loc[t].final_response ELSE ret'.seen
         /\ CallReturns(t)
              => LET final == loc[t].final_response
                 IN  /\ ret'.tool_not_found <=> (final # None /\ HoldsSentinel(final[1]))
                     /\ ~ret'.tool_not_found
                          => (ret'.success = "True" /\ ret'.result = Some(final))
                     /\ final = None
                          => (ret'.success = "True" /\ ret'.result = Some(None))]_vars

\* C17 witness: an event whose first part holds the sentinel and whose last
\* part does not leaves the last part as the response
C17_Witness ==
    /\ ret.op = "call" /\ ret.suspended
    /\ ret.shadowed /\ ret.seen = Some(<<"x">>)
    /\ hist.built > 0
    /\ loc[1].final_response = Some(<<"x">>)

\* C18: a discovery that returns success:true installs an agent whose
\* operations are those get_tools returned, of which exactly the ones with an
\* auth_scheme carry the credential when an API key is configured and none
\* does when no key is configured; a call_execution_agent attaches nothing:
\* its runner is built on the agent as the slot holds it and keeps it.
C18_CredentialOnAuthOperationsOnly ==
    [][\A t \in Tasks :
         /\ (pc[t] = "get_tools" /\ pc'[t] = "idle" /\ ret'.success = "True")
              => LET before == loc[t].toolset
                     after == execution_agent'[1].tools
                 IN  /\ Len(after) = Len(before)
                     /\ \A i \in 1..Len(before) :
                          /\ after[i].name = before[i].name
                          /\ after[i].auth_scheme = before[i].auth_scheme
                          /\ after[i].credential
                               <=> (ret'.keyed /\ before[i].auth_scheme)
         /\ pc'[t] = "run"
              => loc'[t].runner = IF pc[t] = "run" THEN loc[t].runner
                                  ELSE execution_agent]_vars

\* C18 witness: with a key configured the customers agent has the credential
\* on get_customer_by_id, which declares an auth scheme, and not on
\* list_customers, which declares none
C18_Witness ==
    /\ ret.op = "discover" /\ ret.success = "True" /\ ret.keyed
    /\ execution_agent # None
    /\ execution_agent[1].names = <<"get_customer_by_id", "list_customers">>
    /\ execution_agent[1].tools[1].auth_scheme
    /\ execution_agent[1].tools[1].credential
    /\ ~execution_agent[1].tools[2].auth_scheme
    /\ ~execution_agent[1].tools[2].credential

\* C19: the search of a discovery makes at most one request; it makes none
\* and finds no locator when the search URL or the access token is missing;
\* on a transport or HTTP error, an empty result list or a first result
\* without a spec it makes exactly one request and finds no locator; in all
\* these cases discover_and_create_agent returns success:false at once.
C19_OneSearchRequestNoRetry ==
    [][DiscoverStarts
         => /\ ret'.posts <= 1
            /\ ~ret'.configured => ret'.posts = 0
            /\ (ret'.configured /\ ret'.answer \in {"error", "empty", "no_spec"})
                 => ret'.posts = 1
            /\ (~ret'.configured \/ ret'.answer \in {"error", "empty", "no_spec"})
                 => /\ ret'.located = None
                    /\ ~ret'.raised /\ ~ret'.suspended
                    /\ pc'[ret'.task] = "idle"
                    /\ ret'.success = "False"
                    /\ ret'.spec = None /\ ret'.tools = None]_vars

\* C19 witness: the one search request failed and the discovery returned
\* success:false
C19_Witness ==
    /\ ret.op = "discover" /\ ret.configured /\ ret.answer = "error"
    /\ ret.posts = 1
    /\ ret.success = "False"

====
